---- MODULE Spec2Model ----
(***************************************************************************)
(* Preview manager of the timeline (src/timeline/managers/previewmanager   *)
(* .cpp): the chunk cache on disk, the undo archive keyed by the position  *)
(* of the command stack, and the background render job that fills the      *)
(* cache, driven by one control thread (the event loop).                   *)
(***************************************************************************)
EXTENDS Integers, Sequences, FiniteSets, TLC

\* ---------------------------------------------------------------- bounds
\* lowest position of the command stack that the model follows; the highest
\* is one command above it
LoStack == 10
HiStack == LoStack + 1
\* lowest stack index of an archive the model follows: the archives of the
\* five commands below LoStack can exist when the model starts
LoDir == LoStack - 5
\* threads of the global thread pool that QtConcurrent::run may use
MaxThreads == 2

\* ------------------------------------------------------ program constants
\* KdenliveSettings::timelinechunks(): frames per chunk
ChunkSize == 25
\* doCleanupOldPreviews keeps this many archive directories
KeepDirs == 5
\* progress reported with the last chunk and on abort
FullProgress == 1000
\* interval of the single-shot debounce timer in ms (line 79)
Interval == 3000
\* the model lets the interval elapse in two halves
Tick == Interval \div 2

\* start frames of the chunks of the preview zone
Chunks == {0, ChunkSize}
Threads == 1..MaxThreads

\* ------------------------------------------------------------ file names
\* QString::number(n) for n >= 0: the decimal digits, most significant first
RECURSIVE NumberStr(_)
NumberStr(n) == IF n < 10 THEN <<n>> ELSE Append(NumberStr(n \div 10), n % 10)

\* QString::toInt() of a string of decimal digits
RECURSIVE ToInt(_)
ToInt(s) == IF s = <<>> THEN 0
            ELSE 10 * ToInt(SubSeq(s, 1, Len(s) - 1)) + s[Len(s)]

\* QString operator<: comparison code unit by code unit, a proper prefix first
RECURSIVE StrLess(_, _)
StrLess(a, b) ==
    IF b = <<>> THEN FALSE
    ELSE IF a = <<>> THEN TRUE
    ELSE IF a[1] # b[1] THEN a[1] < b[1]
    ELSE StrLess(Tail(a), Tail(b))

\* qSort of a QStringList holding the distinct names of S
RECURSIVE SortStrings(_)
SortStrings(S) ==
    IF S = {} THEN <<>>
    ELSE LET m == CHOOSE x \in S : \A y \in S \ {x} : StrLess(x, y)
         IN <<m>> \o SortStrings(S \ {m})

\* qSort of a QList<int>
RECURSIVE SortInts(_)
SortInts(s) ==
    IF s = <<>> THEN <<>>
    ELSE LET k == CHOOSE j \in 1..Len(s) : \A l \in 1..Len(s) : s[j] <= s[l]
         IN <<s[k]>> \o SortInts([j \in 1..(Len(s) - 1) |-> IF j < k THEN s[j] ELSE s[j + 1]])

SeqToSet(s) == {s[j] : j \in 1..Len(s)}

\* the lists of distinct chunks the ruler can hand over, in any order
RECURSIVE Perms(_)
Perms(S) == IF S = {} THEN {<<>>}
            ELSE UNION {{<<x>> \o p : p \in Perms(S \ {x})} : x \in S}
ChunkLists == UNION {Perms(S) : S \in SUBSET Chunks}

\* ------------------------------------------------------------ file system
\* a chunk file is absent, being written by a transcode process, or complete
FileStates == {"none", "partial", "complete"}
NoFiles == [c \in Chunks |-> "none"]
\* an archive directory that does not exist, and one that holds the files f
NoDir == [exists |-> FALSE, files |-> NoFiles]
Dir(f) == [exists |-> TRUE, files |-> f]
\* names of the archive directories the model follows
DirNames == {NumberStr(n) : n \in LoDir..HiStack}


DirOf(n) == NumberStr(n)
NoArchive == [d \in DirNames |-> NoDir]
ExistingDirs(u) == {d \in DirNames : u[d] # NoDir}
FilesIn(f) == {c \in Chunks : f[c] # "none"}

\* foreach(int i, chunks) m_cacheDir.rename(current, "undo/<ix>/<current>"):
\* a rename succeeds when the live file exists and the target does not
RECURSIVE RenameAll(_, _, _, _)
RenameAll(chunks, c, d, found) ==
    IF chunks = <<>> THEN [cache |-> c, dir |-> d, found |-> found]
    ELSE LET i == Head(chunks)
             ok == c[i] # "none" /\ d[i] = "none"
         IN RenameAll(Tail(chunks),
                      IF ok THEN [c EXCEPT ![i] = "none"] ELSE c,
                      IF ok THEN [d EXCEPT ![i] = c[i]] ELSE d,
                      found \/ ok)

\* mkdir of the archive directory, which leaves an existing one as it is, the
\* rename loop, and rmdir when nothing moved, which removes an empty directory
ArchiveChunks(c, u, ix, chunks) ==
    LET made == IF u[DirOf(ix)].exists THEN u
                ELSE [u EXCEPT ![DirOf(ix)] = Dir(NoFiles)]
        r == RenameAll(chunks, c, made[DirOf(ix)].files, FALSE)
    IN [cache |-> r.cache,
        undo  |-> IF r.found THEN [made EXCEPT ![DirOf(ix)] = Dir(r.dir)]
                  ELSE IF made[DirOf(ix)].files = NoFiles
                       THEN [made EXCEPT ![DirOf(ix)] = NoDir]
                       ELSE made,
        found |-> r.found]

\* the live file left where it is
RemoveLiveSkipped(c, i, lastUndo) == c
\* lines 160-162: the live file is removed unless lastUndo
RemoveLive(c, i, lastUndo) == IF lastUndo THEN c ELSE [c EXCEPT ![i] = "none"]

\* the loop of lines 158-168: remove the live file unless lastUndo, then
\* QFile::copy from the archive, which fails when the target exists
RECURSIVE RestoreAll(_, _, _, _, _, _)
RestoreAll(chunks, c, src, lastUndo, moveFile, foundChunks) ==
    IF chunks = <<>> THEN [cache |-> c, found |-> foundChunks]
    ELSE LET i  == Head(chunks)
             c1 == RemoveLive(c, i, lastUndo)
             ok == moveFile /\ src[i] # "none" /\ c1[i] = "none"
         IN RestoreAll(Tail(chunks),
                       IF ok THEN [c1 EXCEPT ![i] = src[i]] ELSE c1,
                       src, lastUndo, moveFile,
                       IF ok THEN Append(foundChunks, i) ELSE foundChunks)

\* the test of line 114 without its look at the archive
NewCommandBranchUnchecked(u, sIx, sMax) == sIx = sMax
\* the branch taken by invalidatePreviews at line 114
NewCommandBranch(u, sIx, sMax) == sIx = sMax /\ u[DirOf(sIx - 1)] = NoDir
\* a call that never takes the lastUndo case
LastUndoNever(u, sIx, sMax) == FALSE
\* the lastUndo test of lines 136-137
LastUndo(u, sIx, sMax) == sIx = sMax - 1 /\ u[DirOf(sMax)] = NoDir

\* the file operations of invalidatePreviews (lines 114-171); cleanup tells
\* that cleanupOldPreviews is emitted, reload holds the list of each
\* reloadChunks signal that is emitted
InvalidateFiles(c, u, sIx, sMax, chunks) ==
    IF NewCommandBranch(u, sIx, sMax)
    THEN LET a == ArchiveChunks(c, u, sIx - 1, chunks)
         IN [cache |-> a.cache, undo |-> a.undo, cleanup |-> a.found,
             reload |-> <<>>]
    ELSE LET lastUndo == LastUndo(u, sIx, sMax)
             a  == IF lastUndo THEN ArchiveChunks(c, u, sMax, chunks)
                   ELSE [cache |-> c, undo |-> u, found |-> FALSE]
             moveFile == a.undo[DirOf(sIx)] # NoDir
             r  == RestoreAll(chunks, a.cache,
                              a.undo[DirOf(sIx)].files,
                              lastUndo, moveFile, <<>>)
         IN [cache |-> r.cache, undo |-> a.undo, cleanup |-> FALSE,
             reload |-> <<SortInts(r.found)>>]

\* doCleanupOldPreviews (lines 177-188): the names are sorted as strings and
\* taken from the front while more than KeepDirs are left
RECURSIVE TakeWhileMany(_, _)
TakeWhileMany(dirs, u) ==
    IF Len(dirs) > KeepDirs
    THEN TakeWhileMany(Tail(dirs), [u EXCEPT ![Head(dirs)] = NoDir])
    ELSE u
CleanupOldPreviews(u) == TakeWhileMany(SortStrings(ExistingDirs(u)), u)

\* the comparison of line 306 taken as strictly greater
RemoveInvalidUndoAbove(u, ix) ==
    [d \in DirNames |-> IF u[d] # NoDir /\ ToInt(d) > ix THEN NoDir ELSE u[d]]
\* slotRemoveInvalidUndo (lines 301-313)
RemoveInvalidUndo(u, ix) ==
    [d \in DirNames |-> IF u[d] # NoDir /\ ToInt(d) >= ix THEN NoDir ELSE u[d]]

\* progress of the ct-th chunk when rest chunks are left (lines 251-255)
Progress(ct, rest) ==
    IF rest = 0 THEN FullProgress ELSE (ct * 1000) \div (ct + rest)


\* ------------------------------------------------------------------ state
VARIABLES
    init,             \* how far initialize() got: "new", a failure, "ready"
    m_initialized,    \* PreviewManager::m_initialized
    m_abortPreview,   \* PreviewManager::m_abortPreview
    m_previewThread,  \* pool thread of the job the QFuture refers to, 0: none
    m_previewTimer,   \* ms left until the debounce timer fires, 0: not active
    cacheDir,         \* TRUE while the cache directory exists on disk
    cache,            \* live chunk files <chunk>.<ext> of the cache directory
    sceneFile,        \* TRUE while preview.mlt exists in the cache directory
    undo,             \* archive directories undo/<index>/ and their files
    strayRemoved,     \* a directory other than the manager's own was deleted
    stackIx,          \* m_doc->commandStack()->index()
    stackMax,         \* m_doc->commandStack()->count()
    ctl,              \* the control thread: position and locals
    job,              \* per pool thread: the doPreviewRender call it runs
    reloaded          \* lists of the reloadChunks signals of the running call

vars == <<init, m_initialized, m_abortPreview, m_previewThread, m_previewTimer,
          cacheDir, cache, sceneFile, undo, strayRemoved, stackIx, stackMax,
          ctl, job, reloaded>>

fsVars == <<cacheDir, cache, sceneFile, undo, strayRemoved>>
docVars == <<stackIx, stackMax>>
mgrVars == <<init, m_initialized>>

\* QTimer::start(): the timer is active with its whole interval ahead
StartTimer(remaining) == Interval
\* QTimer::isActive()
IsActive(remaining) == remaining > 0
\* a return that leaves the timer stopped
ResumeTimerSkipped(timer, remaining) == remaining
\* lines 173-174: the timer that was active on entry is started again
ResumeTimer(timer, remaining) == IF timer THEN StartTimer(remaining) ELSE remaining

Idle == [pc |-> "idle", ret |-> "none", chunks |-> <<>>, timer |-> FALSE,
         sIx |-> 0, sMax |-> 0, ix |-> 0]
FreeJob == [pc |-> "free", chunks |-> <<>>, i |-> 0, ct |-> 0, progress |-> 0,
            proc |-> "none", log |-> <<>>]

\* a future that never reports a running job
IsRunningNever == FALSE
\* QFuture::isRunning() of m_previewThread
IsRunning == m_previewThread # 0 /\ job[m_previewThread].pc # "free"
\* the doPreviewRender calls that have started and not yet finished
RunningJobs == {t \in Threads : job[t].pc # "free"}

Init ==
    /\ init = "new"
    /\ m_initialized = FALSE
    /\ m_abortPreview = FALSE
    /\ m_previewThread = 0
    /\ m_previewTimer = 0
    /\ cacheDir = FALSE
    /\ cache = NoFiles
    /\ sceneFile = FALSE
    /\ undo = NoArchive
    /\ strayRemoved = FALSE
    /\ stackIx = HiStack
    /\ stackMax = HiStack
    /\ ctl = Idle
    /\ job = [t \in Threads |-> FreeJob]
    /\ reloaded = <<>>

\* ------------------------------------------------------------- initialize
\* initialize() (lines 49-83): m_initialized is set at line 52, before the
\* checks; the outcome names the return that was taken
InitOutcomes == {"nodoc", "nocache", "noundo", "noparams", "ready"}
Initialize ==
    /\ init = "new"
    /\ ctl.pc = "idle"
    /\ \E o \in InitOutcomes :
        /\ init' = o
        /\ cacheDir' = (o \in {"noundo", "noparams", "ready"})
    /\ m_initialized' = TRUE
    /\ UNCHANGED <<m_abortPreview, m_previewThread, m_previewTimer, cache,
                   sceneFile, undo, strayRemoved, docVars, ctl, job, reloaded>>

\* ---------------------------------------------------------- command stack
\* a new command is pushed at the current position
Push ==
    /\ init = "ready" /\ ctl.pc = "idle"
    /\ stackIx < HiStack
    /\ stackIx' = stackIx + 1
    /\ stackMax' = stackIx + 1
    /\ UNCHANGED <<mgrVars, m_abortPreview, m_previewThread, m_previewTimer,
                   fsVars, ctl, job, reloaded>>
Undo ==
    /\ init = "ready" /\ ctl.pc = "idle"
    /\ stackIx > LoStack
    /\ stackIx' = stackIx - 1
    /\ UNCHANGED <<mgrVars, m_abortPreview, m_previewThread, m_previewTimer,
                   fsVars, stackMax, ctl, job, reloaded>>
Redo ==
    /\ init = "ready" /\ ctl.pc = "idle"
    /\ stackIx < stackMax
    /\ stackIx' = stackIx + 1
    /\ UNCHANGED <<mgrVars, m_abortPreview, m_previewThread, m_previewTimer,
                   fsVars, stackMax, ctl, job, reloaded>>


\* --------------------------------------------------------- abortRendering
\* a wait that returns at once
WaitForFinishedNoWait == TRUE
\* QFuture::waitForFinished() (line 221) returns once the job has finished
WaitForFinished == ~IsRunning

\* line 217: nothing runs, return to the caller
AbortNotRunning ==
    /\ ctl.pc = "ab_check"
    /\ ~IsRunning
    /\ ctl' = [ctl EXCEPT !.pc = ctl.ret]
    /\ UNCHANGED <<mgrVars, m_abortPreview, m_previewThread, m_previewTimer,
                   fsVars, docVars, job, reloaded>>
\* line 217: a job runs, go on
AbortRunning ==
    /\ ctl.pc = "ab_check"
    /\ IsRunning
    /\ ctl' = [ctl EXCEPT !.pc = "ab_set"]
    /\ UNCHANGED <<mgrVars, m_abortPreview, m_previewThread, m_previewTimer,
                   fsVars, docVars, job, reloaded>>
\* line 219
AbortSetFlag ==
    /\ ctl.pc = "ab_set"
    /\ m_abortPreview' = TRUE
    /\ ctl' = [ctl EXCEPT !.pc = "ab_emit"]
    /\ UNCHANGED <<mgrVars, m_previewThread, m_previewTimer, fsVars, docVars,
                   job, reloaded>>
\* line 220: abortPreview() reaches, by the direct connection of line 269,
\* QProcess::kill() of every transcode process that is alive
AbortEmit ==
    /\ ctl.pc = "ab_emit"
    /\ job' = [t \in Threads |->
                 IF job[t].proc \in {"running", "writing"}
                 THEN [job[t] EXCEPT !.proc = "crashed"] ELSE job[t]]
    /\ ctl' = [ctl EXCEPT !.pc = "ab_wait"]
    /\ UNCHANGED <<mgrVars, m_abortPreview, m_previewThread, m_previewTimer,
                   fsVars, docVars, reloaded>>
\* line 221
AbortWait ==
    /\ ctl.pc = "ab_wait"
    /\ WaitForFinished
    /\ ctl' = [ctl EXCEPT !.pc = ctl.ret]
    /\ UNCHANGED <<mgrVars, m_abortPreview, m_previewThread, m_previewTimer,
                   fsVars, docVars, job, reloaded>>

\* ----------------------------------------------------- invalidatePreviews
\* slotProcessDirtyChunks (line 294) entering invalidatePreviews (lines
\* 105-113): the timer is stopped, the stack is read, abortRendering is called
SlotProcessDirtyChunks ==
    /\ init = "ready" /\ ctl.pc = "idle"
    /\ \E chunks \in ChunkLists \ {<<>>} :
        ctl' = [pc |-> "ab_check", ret |-> "inv_files", chunks |-> chunks,
                timer |-> IsActive(m_previewTimer), sIx |-> stackIx, sMax |-> stackMax,
                ix |-> 0]
    /\ m_previewTimer' = 0
    /\ UNCHANGED <<mgrVars, m_abortPreview, m_previewThread, fsVars, docVars,
                   job, reloaded>>

\* lines 114-171
InvalidateFilesStep ==
    /\ ctl.pc = "inv_files"
    /\ LET r == InvalidateFiles(cache, undo, ctl.sIx, ctl.sMax, ctl.chunks)
       IN /\ cache' = r.cache
          /\ undo' = r.undo
          /\ reloaded' = r.reload
          /\ ctl' = [ctl EXCEPT !.pc = IF r.cleanup THEN "inv_cleanup"
                                       ELSE "inv_exit"]
    /\ UNCHANGED <<mgrVars, m_abortPreview, m_previewThread, m_previewTimer,
                   cacheDir, sceneFile, strayRemoved, docVars, job>>

\* line 130: cleanupOldPreviews() calls the slot doCleanupOldPreviews at once
DoCleanupOldPreviews ==
    /\ ctl.pc = "inv_cleanup"
    /\ undo' = CleanupOldPreviews(undo)
    /\ ctl' = [ctl EXCEPT !.pc = "inv_exit"]
    /\ UNCHANGED <<mgrVars, m_abortPreview, m_previewThread, m_previewTimer,
                   cacheDir, cache, sceneFile, strayRemoved, docVars, job,
                   reloaded>>

\* lines 172-175
InvalidateExit ==
    /\ ctl.pc = "inv_exit"
    /\ m_previewTimer' = ResumeTimer(ctl.timer, m_previewTimer)
    /\ ctl' = [ctl EXCEPT !.pc = "slot_end"]
    /\ UNCHANGED <<mgrVars, m_abortPreview, m_previewThread, fsVars, docVars,
                   job, reloaded>>

\* lines 296-298: the timer is started when autopreview is set
SlotProcessEnd ==
    /\ ctl.pc = "slot_end"
    /\ \E autopreview \in BOOLEAN :
        m_previewTimer' = IF autopreview THEN StartTimer(m_previewTimer)
                          ELSE m_previewTimer
    /\ ctl' = Idle
    /\ reloaded' = <<>>
    /\ UNCHANGED <<mgrVars, m_abortPreview, m_previewThread, fsVars, docVars,
                   job>>

\* -------------------------------------------------- slotRemoveInvalidUndo
\* the document emits removeInvalidUndo(ix) and the slot is entered
SlotRemoveInvalidUndo(ix) ==
    /\ init = "ready" /\ ctl.pc = "idle"
    /\ ctl' = [Idle EXCEPT !.pc = "rm_undo", !.ix = ix]
    /\ UNCHANGED <<mgrVars, m_abortPreview, m_previewThread, m_previewTimer,
                   fsVars, docVars, job, reloaded>>
\* lines 303-312
RemoveInvalidUndoStep ==
    /\ ctl.pc = "rm_undo"
    /\ undo' = RemoveInvalidUndo(undo, ctl.ix)
    /\ ctl' = Idle
    /\ UNCHANGED <<mgrVars, m_abortPreview, m_previewThread, m_previewTimer,
                   cacheDir, cache, sceneFile, strayRemoved, docVars, job,
                   reloaded>>

\* -------------------------------------------------------- addPreviewRange
\* lines 190-213; toProcess is what the ruler's addChunks returns
AddPreviewRange ==
    /\ init = "ready" /\ ctl.pc = "idle"
    /\ \E add \in BOOLEAN, autopreview \in BOOLEAN, toProcess \in ChunkLists :
        /\ m_previewTimer' = IF toProcess # <<>> /\ add /\ autopreview
                             THEN StartTimer(m_previewTimer)
                             ELSE m_previewTimer
        /\ cache' = IF toProcess # <<>> /\ ~add
                    THEN [c \in Chunks |-> IF c \in SeqToSet(toProcess)
                                           THEN "none" ELSE cache[c]]
                    ELSE cache
    /\ UNCHANGED <<mgrVars, m_abortPreview, m_previewThread, cacheDir,
                   sceneFile, undo, strayRemoved, docVars, ctl, job, reloaded>>

\* ----------------------------------------------------- startPreviewRender
\* time passes while the timer is active: the first half of its interval
TimerElapse ==
    /\ ctl.pc = "idle"
    /\ m_previewTimer > Tick
    /\ m_previewTimer' = m_previewTimer - Tick
    /\ UNCHANGED <<mgrVars, m_abortPreview, m_previewThread, fsVars, docVars,
                   ctl, job, reloaded>>

\* the rest of the interval has passed: the single-shot timer fires and
\* startPreviewRender runs up to line 232; restart tells that
\* addPreviewRange(true) of line 227 has started the timer again
TimerFire ==
    /\ init = "ready" /\ ctl.pc = "idle"
    /\ IsActive(m_previewTimer) /\ m_previewTimer <= Tick
    /\ \E restart \in BOOLEAN, chunks \in ChunkLists :
        /\ m_previewTimer' = IF restart THEN StartTimer(0) ELSE 0
        /\ ctl' = IF chunks = <<>> THEN Idle
                  ELSE [Idle EXCEPT !.pc = "ab_check", !.ret = "start_run",
                                    !.chunks = chunks]
    /\ UNCHANGED <<mgrVars, m_abortPreview, m_previewThread, fsVars, docVars,
                   job, reloaded>>

\* the pool thread that takes the next job
FreeThread == CHOOSE t \in Threads :
                 job[t].pc = "free" /\ \A u \in Threads : job[u].pc = "free" => t <= u

\* lines 233-235: the scene is saved and the job is handed to the pool
StartRun ==
    /\ ctl.pc = "start_run"
    /\ \E t \in Threads : job[t].pc = "free"
    /\ sceneFile' = TRUE
    /\ job' = [job EXCEPT ![FreeThread] = [FreeJob EXCEPT !.pc = "init",
                                                         !.chunks = ctl.chunks]]
    /\ m_previewThread' = FreeThread
    /\ ctl' = Idle
    /\ UNCHANGED <<mgrVars, m_abortPreview, m_previewTimer, cacheDir, cache,
                   undo, strayRemoved, docVars, reloaded>>


\* -------------------------------------------------------- doPreviewRender
\* one entry of a job's log: a previewRender signal it emitted ("init", "done",
\* "fail", "abort") or a call of QProcess::start ("launch")
Event(k, chunk, path, progress) ==
    [k |-> k, chunk |-> chunk, path |-> path, progress |-> progress]

\* the queue taken as it was passed in
JobQueueUnsorted(chunks) == chunks
\* qSort(chunks) of line 246
JobQueue(chunks) == SortInts(chunks)

\* the output file left where it is
RemoveOutputSkipped(c, i) == c
\* QFile::remove of the output file at line 281
RemoveOutput(c, i) == [c EXCEPT ![i] = "none"]

\* lines 244-246
JobInit(t) ==
    /\ job[t].pc = "init"
    /\ job' = [job EXCEPT ![t].pc = "loop",
                          ![t].chunks = JobQueue(job[t].chunks),
                          ![t].log = Append(job[t].log, Event("init", 0, FALSE, 0))]
    /\ UNCHANGED <<mgrVars, m_abortPreview, m_previewThread, m_previewTimer,
                   fsVars, docVars, ctl, reloaded>>

\* lines 247-260: the next chunk is taken; one that is in the cache already
\* is reported at once, for any other a process is built
JobLoop(t) ==
    /\ job[t].pc = "loop"
    /\ job' = IF job[t].chunks = <<>>
              THEN [job EXCEPT ![t].pc = "scene"]
              ELSE LET i == Head(job[t].chunks)
                       progress == Progress(job[t].ct + 1, Len(job[t].chunks) - 1)
                       cached == cache[i] # "none"
                   IN [job EXCEPT
                         ![t].pc = IF cached THEN "loop" ELSE "spawn",
                         ![t].i = i,
                         ![t].chunks = Tail(job[t].chunks),
                         ![t].ct = job[t].ct + 1,
                         ![t].progress = progress,
                         ![t].log = IF cached
                                    THEN Append(job[t].log, Event("done", i, TRUE, progress))
                                    ELSE job[t].log]
    /\ UNCHANGED <<mgrVars, m_abortPreview, m_previewThread, m_previewTimer,
                   fsVars, docVars, ctl, reloaded>>

\* lines 268-271: the process is connected and started; waitForStarted tells
\* whether it came up
JobSpawn(t) ==
    /\ job[t].pc = "spawn"
    /\ \E started \in BOOLEAN :
        job' = [job EXCEPT ![t].pc = IF started THEN "wait" ELSE "loop",
                           ![t].proc = IF started THEN "running" ELSE "none",
                           ![t].log = Append(job[t].log,
                               Event("launch", job[t].i, FALSE, 0))]
    /\ UNCHANGED <<mgrVars, m_abortPreview, m_previewThread, m_previewTimer,
                   fsVars, docVars, ctl, reloaded>>

\* the transcode process creates its output file and writes to it
ProcWrite(t) ==
    /\ job[t].proc = "running"
    /\ job' = [job EXCEPT ![t].proc = "writing"]
    /\ cache' = [cache EXCEPT ![job[t].i] = "partial"]
    /\ UNCHANGED <<mgrVars, m_abortPreview, m_previewThread, m_previewTimer,
                   cacheDir, sceneFile, undo, strayRemoved, docVars, ctl,
                   reloaded>>

\* the transcode process exits normally: its output, if still there, is complete
ProcExit(t) ==
    /\ job[t].proc = "writing"
    /\ job' = [job EXCEPT ![t].proc = "normal"]
    /\ cache' = IF cache[job[t].i] = "partial"
                THEN [cache EXCEPT ![job[t].i] = "complete"] ELSE cache
    /\ UNCHANGED <<mgrVars, m_abortPreview, m_previewThread, m_previewTimer,
                   cacheDir, sceneFile, undo, strayRemoved, docVars, ctl,
                   reloaded>>

\* the transcode process crashes by itself
ProcCrash(t) ==
    /\ job[t].proc \in {"running", "writing"}
    /\ job' = [job EXCEPT ![t].proc = "crashed"]
    /\ UNCHANGED <<mgrVars, m_abortPreview, m_previewThread, m_previewTimer,
                   fsVars, docVars, ctl, reloaded>>

\* lines 272-273 and 284: waitForFinished returns, the exit status is read
JobWaited(t) ==
    /\ job[t].pc = "wait"
    /\ job[t].proc \in {"normal", "crashed"}
    /\ job' = IF job[t].proc = "crashed"
              THEN [job EXCEPT ![t].pc = "flag"]
              ELSE [job EXCEPT ![t].pc = "loop", ![t].proc = "none",
                               ![t].log = Append(job[t].log,
                                   Event("done", job[t].i, TRUE, job[t].progress))]
    /\ UNCHANGED <<mgrVars, m_abortPreview, m_previewThread, m_previewTimer,
                   fsVars, docVars, ctl, reloaded>>

\* lines 275-280: the abort flag decides which signal is emitted
JobReadFlag(t) ==
    /\ job[t].pc = "flag"
    /\ job' = [job EXCEPT ![t].pc = "rmfile",
                 ![t].log = Append(job[t].log,
                     IF m_abortPreview THEN Event("abort", 0, FALSE, FullProgress)
                     ELSE Event("fail", job[t].i, FALSE, -1))]
    /\ UNCHANGED <<mgrVars, m_abortPreview, m_previewThread, m_previewTimer,
                   fsVars, docVars, ctl, reloaded>>

\* lines 281-282
JobRemoveFile(t) ==
    /\ job[t].pc = "rmfile"
    /\ cache' = RemoveOutput(cache, job[t].i)
    /\ job' = [job EXCEPT ![t].pc = "scene", ![t].proc = "none"]
    /\ UNCHANGED <<mgrVars, m_abortPreview, m_previewThread, m_previewTimer,
                   cacheDir, sceneFile, undo, strayRemoved, docVars, ctl,
                   reloaded>>

\* line 288
JobRemoveScene(t) ==
    /\ job[t].pc = "scene"
    /\ sceneFile' = FALSE
    /\ job' = [job EXCEPT ![t].pc = "clear"]
    /\ UNCHANGED <<mgrVars, m_abortPreview, m_previewThread, m_previewTimer,
                   cacheDir, cache, undo, strayRemoved, docVars, ctl, reloaded>>

\* line 289
JobClearFlag(t) ==
    /\ job[t].pc = "clear"
    /\ m_abortPreview' = FALSE
    /\ job' = [job EXCEPT ![t].pc = "ret"]
    /\ UNCHANGED <<mgrVars, m_previewThread, m_previewTimer, fsVars, docVars,
                   ctl, reloaded>>

\* doPreviewRender has returned: the future becomes finished
JobFinish(t) ==
    /\ job[t].pc = "ret"
    /\ job' = [job EXCEPT ![t] = FreeJob]
    /\ UNCHANGED <<mgrVars, m_abortPreview, m_previewThread, m_previewTimer,
                   fsVars, docVars, ctl, reloaded>>

\* ------------------------------------------------------------- destructor
\* QDir::entryList(QDir::NoDotAndDotDot) of line 43: a filter that names
\* neither QDir::Files nor QDir::Dirs matches no entry
EntryListNoDotAndDotDot(entries) == {}
\* what the cache directory holds once the archive tree is gone
CacheEntries == FilesIn(cache) \cup (IF sceneFile THEN {"preview.mlt"} ELSE {})

\* line 40
Destructor ==
    /\ ctl.pc = "idle"
    /\ ctl' = IF m_initialized
              THEN [Idle EXCEPT !.pc = "ab_check", !.ret = "dtor_files"]
              ELSE [Idle EXCEPT !.pc = "dead"]
    /\ m_previewTimer' = 0
    /\ UNCHANGED <<mgrVars, m_abortPreview, m_previewThread, fsVars, docVars,
                   job, reloaded>>

\* lines 42-45: m_undoDir is set only by a successful initialize (line 75),
\* m_cacheDir from line 59 or 61 on; a QDir left default-constructed is "."
DestructorFiles ==
    /\ ctl.pc = "dtor_files"
    /\ LET ownUndo  == init = "ready"
           ownCache == init \in {"noundo", "noparams", "ready"}
           wipe     == Cardinality(EntryListNoDotAndDotDot(CacheEntries)) = 0
       IN /\ undo' = IF ownUndo \/ (ownCache /\ wipe) THEN NoArchive ELSE undo
          /\ cache' = IF ownCache /\ wipe THEN NoFiles ELSE cache
          /\ sceneFile' = IF ownCache /\ wipe THEN FALSE ELSE sceneFile
          /\ cacheDir' = IF ownCache /\ wipe THEN FALSE ELSE cacheDir
          /\ strayRemoved' = (~ownUndo \/ (~ownCache /\ wipe))
    /\ ctl' = [ctl EXCEPT !.pc = "dead"]
    /\ UNCHANGED <<mgrVars, m_abortPreview, m_previewThread, m_previewTimer,
                   docVars, job, reloaded>>

\* ------------------------------------------------------------------- spec
ControlStep ==
    \/ Initialize
    \/ Push \/ Undo \/ Redo
    \/ AbortNotRunning \/ AbortRunning \/ AbortSetFlag \/ AbortEmit \/ AbortWait
    \/ SlotProcessDirtyChunks \/ InvalidateFilesStep \/ DoCleanupOldPreviews
    \/ InvalidateExit \/ SlotProcessEnd
    \/ \E ix \in LoStack..HiStack : SlotRemoveInvalidUndo(ix)
    \/ RemoveInvalidUndoStep
    \/ AddPreviewRange
    \/ TimerElapse \/ TimerFire \/ StartRun
    \/ Destructor \/ DestructorFiles

JobStep(t) ==
    \/ JobInit(t) \/ JobLoop(t) \/ JobSpawn(t)
    \/ ProcWrite(t) \/ ProcExit(t) \/ ProcCrash(t)
    \/ JobWaited(t) \/ JobReadFlag(t) \/ JobRemoveFile(t)
    \/ JobRemoveScene(t) \/ JobClearFlag(t) \/ JobFinish(t)

Next == ControlStep \/ \E t \in Threads : JobStep(t)

Spec == Init /\ [][Next]_vars

\* The archive on its own: the manager is ready, no job runs, and the disk
\* holds what earlier edits and renders of the session have left: complete
\* chunk files, and at most KeepDirs archives below the top of the stack,
\* none of them empty
CompleteFiles == [Chunks -> {"none", "complete"}]
ArchiveStates(top) ==
    {u \in [DirNames -> {NoDir} \cup {Dir(f) : f \in CompleteFiles \ {NoFiles}}] :
        /\ \A d \in ExistingDirs(u) : ToInt(d) < top
        /\ Cardinality(ExistingDirs(u)) <= KeepDirs}

InitArchive ==
    /\ init = "ready"
    /\ m_initialized = TRUE
    /\ m_abortPreview = FALSE
    /\ m_previewThread = 0
    /\ m_previewTimer = 0
    /\ cacheDir = TRUE
    /\ cache \in CompleteFiles
    /\ sceneFile = FALSE
    /\ stackMax \in LoStack..HiStack
    /\ stackIx = stackMax
    /\ undo \in ArchiveStates(stackMax)
    /\ strayRemoved = FALSE
    /\ ctl = Idle
    /\ job = [t \in Threads |-> FreeJob]
    /\ reloaded = <<>>

NextArchive ==
    \/ Push \/ Undo \/ Redo
    \/ SlotProcessDirtyChunks \/ AbortNotRunning \/ InvalidateFilesStep
    \/ DoCleanupOldPreviews \/ InvalidateExit \/ SlotProcessEnd
    \/ \E ix \in LoStack..HiStack : SlotRemoveInvalidUndo(ix)
    \/ RemoveInvalidUndoStep
    \/ AddPreviewRange

SpecArchive == InitArchive /\ [][NextArchive]_vars

\* The render job on its own: startPreviewRender has just handed a queue over
\* a preview zone of three chunks to the pool (line 235), some of the chunks
\* are in the cache already, and the control thread stays idle
RenderChunks == Chunks \cup {2 * ChunkSize}
RenderQueues == UNION {Perms(S) : S \in SUBSET RenderChunks} \ {<<>>}

InitRender ==
    /\ init = "ready"
    /\ m_initialized = TRUE
    /\ m_abortPreview = FALSE
    /\ m_previewThread = 1
    /\ m_previewTimer = 0
    /\ cacheDir = TRUE
    /\ cache \in [RenderChunks -> {"none", "complete"}]
    /\ sceneFile = TRUE
    /\ undo = NoArchive
    /\ strayRemoved = FALSE
    /\ stackIx = HiStack
    /\ stackMax = HiStack
    /\ ctl = Idle
    /\ \E q \in RenderQueues :
        job = [t \in Threads |->
                 IF t = 1 THEN [FreeJob EXCEPT !.pc = "init", !.chunks = q]
                 ELSE FreeJob]
    /\ reloaded = <<>>

NextRender == \E t \in Threads : JobStep(t)

SpecRender == InitRender /\ [][NextRender]_vars

\* ----------------------------------------------------------------- claims
Last(s) == s[Len(s)]
\* the control thread is inside abortRendering
AbortCalled == ctl.pc \in {"ab_check", "ab_set", "ab_emit", "ab_wait"}
\* the control thread has raised the abort flag and not yet returned
AbortRaised == ctl.pc \in {"ab_emit", "ab_wait"}
\* thread t takes the step that reads the abort flag and reports
Reports(t) == job[t].pc = "flag" /\ job'[t].pc = "rmfile"
\* every job has left its chunk loop
JobsEnded == \A t \in Threads : job[t].pc \in {"free", "scene", "clear", "ret"}
\* the entries of a log that stand for a chunk being processed
ChunkEntries(log) == {j \in 1..Len(log) : log[j].k \in {"launch", "done", "fail"}}

\* C1: at most one doPreviewRender call runs at any moment, and the control
\* thread reaches the start of a new job (line 235) only when none runs
C1_SingleFlight ==
    /\ Cardinality(RunningJobs) <= 1
    /\ ctl.pc = "start_run" => RunningJobs = {}
\* a start of a new job is waiting for the job that runs
C1_Witness == ctl.pc = "ab_wait" /\ ctl.ret = "start_run" /\ RunningJobs # {}

\* C2: while invalidatePreviews is at its file operations (lines 114-175) or
\* the destructor at its removals (lines 42-45), no render job runs
C2_QuiescentMutation ==
    ctl.pc \in {"inv_files", "inv_cleanup", "inv_exit", "dtor_files"}
        => RunningJobs = {}
\* invalidatePreviews is about to touch the files after a job had been started
C2_Witness ==
    /\ ctl.pc \in {"inv_files", "dtor_files"}
    /\ m_previewThread # 0
    /\ FilesIn(cache) # {}

\* C3: once every job has left its chunk loop (in particular when none runs),
\* no live chunk file is partial
C3_NoPartialFile == JobsEnded => \A c \in Chunks : cache[c] # "partial"
\* a job has ended by a failure or an abort of a process that was writing
C3_Witness ==
    \E t \in Threads :
        /\ job[t].pc = "ret"
        /\ Last(job[t].log).k \in {"fail", "abort"}
        /\ cache[job[t].i] = "none"

\* C4: within one job the chunks are processed in ascending order of their
\* start frame, whatever the order of the list passed in
C4_AscendingOrder ==
    \A t \in Threads : \A j, k \in ChunkEntries(job[t].log) :
        j < k => job[t].log[j].chunk <= job[t].log[k].chunk
\* a job has processed two different chunks
C4_Witness ==
    \E t \in Threads : \E j, k \in ChunkEntries(job[t].log) :
        job[t].log[j].chunk < job[t].log[k].chunk

\* C5: a process that exits abnormally while no abort is requested is
\* reported as previewRender(chunk, empty, -1); its output file is removed,
\* no other cache file changes, and the job launches nothing more
C5_FailureReport ==
    [][\A t \in Threads :
        /\ (Reports(t) /\ ~AbortCalled)
              => Last(job'[t].log) = Event("fail", job[t].i, FALSE, -1)
        /\ (job[t].pc = "rmfile" /\ job'[t].pc = "scene")
              => cache' = [cache EXCEPT ![job[t].i] = "none"]
        /\ job[t].pc \in {"flag", "rmfile", "scene", "clear", "ret"}
              => job'[t].pc \notin {"loop", "spawn", "wait"}]_vars

\* C6: an abnormal exit is reported as (0, empty, 1000) only if abortRendering
\* was called for the running job, and as (chunk, empty, -1) otherwise
C6_DistinctReports ==
    [][\A t \in Threads : Reports(t) =>
        IF Last(job'[t].log).k = "abort"
        THEN AbortCalled /\ Last(job'[t].log) = Event("abort", 0, FALSE, FullProgress)
        ELSE Last(job'[t].log) = Event("fail", job[t].i, FALSE, -1)]_vars

\* C7: once abortRendering has raised the abort flag for the running job,
\* that job starts no transcode process any more
C7_NoLaunchAfterAbort ==
    [][AbortRaised => \A t \in Threads :
        ~(job[t].pc = "spawn" /\ job'[t].pc = "wait")]_vars


\* stack indexes that have an archive directory
ArchivedAt(u) == {n \in LoDir..HiStack : u[DirOf(n)].exists}
\* the k highest numbers of S
Highest(S, k) == {n \in S : Cardinality({m \in S : m > n}) < k}

\* C8: doCleanupOldPreviews leaves at most 5 archive directories, and when
\* more than 5 existed it leaves exactly the 5 with the highest stack index
C8_KeepsHighest ==
    [][(ctl.pc = "inv_cleanup" /\ ctl'.pc = "inv_exit") =>
        /\ Cardinality(ArchivedAt(undo')) <= KeepDirs
        /\ Cardinality(ArchivedAt(undo)) > KeepDirs
              => ArchivedAt(undo') = Highest(ArchivedAt(undo), KeepDirs)]_vars

\* C9: slotRemoveInvalidUndo(ix) deletes every archive whose index is >= ix and
\* leaves every archive below ix, and the live cache, as they were
C9_RemovesFromIndex ==
    [][(ctl.pc = "rm_undo" /\ ctl'.pc = "idle") =>
        /\ \A n \in LoDir..HiStack :
              IF n >= ctl.ix THEN ~undo'[DirOf(n)].exists
              ELSE undo'[DirOf(n)] = undo[DirOf(n)]
        /\ cache' = cache]_vars
\* the slot runs with archives on both sides of ix and files in the cache
C9_Witness ==
    /\ ctl.pc = "rm_undo"
    /\ \E n \in ArchivedAt(undo) : n >= ctl.ix
    /\ \E n \in ArchivedAt(undo) : n < ctl.ix
    /\ FilesIn(cache) # {}

\* the files after a whole call of invalidatePreviews, cleanup included
InvalidatePreviews(c, u, sIx, sMax, chunks) ==
    LET r == InvalidateFiles(c, u, sIx, sMax, chunks)
    IN [cache |-> r.cache,
        undo |-> IF r.cleanup THEN CleanupOldPreviews(r.undo) ELSE r.undo]
\* the live cache after a new command that makes chunks dirty is pushed and
\* then undone
EditThenUndo(chunks) ==
    LET edit == InvalidatePreviews(cache, undo, stackIx + 1, stackIx + 1, chunks)
        back == InvalidatePreviews(edit.cache, edit.undo, stackIx, stackIx + 1, chunks)
    IN back.cache

\* C10: with no archive at the current index, a new edit that invalidates
\* chunks followed by the undo of that edit brings back exactly the chunk
\* files that were live before the edit
C10_RoundTrip ==
    (/\ init = "ready" /\ ctl.pc = "idle"
     /\ stackIx = stackMax /\ stackIx < HiStack
     /\ ~undo[DirOf(stackIx)].exists)
        => \A chunks \in ChunkLists \ {<<>>} : EditThenUndo(chunks) = cache

\* C11: when invalidatePreviews runs with stackIx = stackMax and no archive
\* stackIx-1, every dirty chunk that has a live file is moved into
\* undo/(stackIx-1): no dirty chunk keeps a live file, the archive holds
\* exactly the moved files and does not exist when nothing was moved; pruning
\* is triggered once files were moved, and the archive still holds those files
\* when the call is over
C11_ArchiveOnNewCommand ==
    [][/\ (/\ ctl.pc = "inv_files" /\ ctl'.pc # "inv_files"
           /\ ctl.sIx = ctl.sMax /\ ~undo[DirOf(ctl.sIx - 1)].exists) =>
             LET dirty == SeqToSet(ctl.chunks)
                 moved == [c \in Chunks |-> IF c \in dirty THEN cache[c] ELSE "none"]
             IN /\ \A c \in dirty : cache'[c] = "none"
                /\ undo'[DirOf(ctl.sIx - 1)] =
                      IF moved = NoFiles THEN NoDir ELSE Dir(moved)
                /\ moved # NoFiles => ctl'.pc = "inv_cleanup"
       /\ (ctl.pc = "inv_cleanup" /\ ctl'.pc = "inv_exit") =>
             undo'[DirOf(ctl.sIx - 1)] = undo[DirOf(ctl.sIx - 1)]]_vars

\* the list s holds exactly the numbers of S, in ascending order
AscendingListOf(s, S) ==
    /\ SeqToSet(s) = S
    /\ \A j, k \in 1..Len(s) : j < k => s[j] < s[k]

\* C12: when invalidatePreviews takes the navigation branch and it is not the
\* lastUndo case, a dirty chunk has a live file afterwards if and only if the
\* archive at stackIx holds a file for it, and reloadChunks carries exactly
\* the restored chunks in ascending order
C12_RestoreOnNavigate ==
    [][(/\ ctl.pc = "inv_files" /\ ctl'.pc # "inv_files"
        /\ ~(ctl.sIx = ctl.sMax /\ ~undo[DirOf(ctl.sIx - 1)].exists)
        /\ ~(ctl.sIx = ctl.sMax - 1 /\ ~undo[DirOf(ctl.sMax)].exists)) =>
          LET dirty == SeqToSet(ctl.chunks)
              held  == {c \in dirty : undo[DirOf(ctl.sIx)].files[c] # "none"}
          IN /\ \A c \in dirty : cache'[c] # "none" <=> c \in held
             /\ Len(reloaded') = 1
             /\ AscendingListOf(reloaded'[1], held)]_vars
\* a call at the top of the stack, with an archive below it, has restored one
\* of two dirty chunks
C12_Witness ==
    /\ ctl.pc = "inv_exit"
    /\ ctl.sIx = ctl.sMax
    /\ Len(ctl.chunks) = 2
    /\ Len(reloaded) = 1 /\ Len(reloaded[1]) = 1
    /\ \E c \in Chunks : cache[c] = "none"

\* the returns of initialize() with false
FailedInit == InitOutcomes \ {"ready"}

\* C13: after initialize() has returned false the manager is not initialized,
\* its timer is never active, and no later step, teardown included, deletes
\* anything from the cache directory or the undo archive
C13_FailedInitInert ==
    [][(init \in FailedInit) =>
        (/\ ~m_initialized
         /\ ~IsActive(m_previewTimer')
         /\ cacheDir' = cacheDir
         /\ cache' = cache
         /\ undo' = undo)]_vars

\* C14: teardown of an initialized manager runs its removals only when no
\* render job runs; it deletes the whole undo archive, and it deletes the
\* cache directory if and only if no entry is left in it: a cache directory
\* that still holds chunk files is kept, with those files
C14_Teardown ==
    [][(init = "ready" /\ ctl.pc = "dtor_files" /\ ctl'.pc = "dead") =>
        (/\ RunningJobs = {}
         /\ undo' = NoArchive
         /\ cacheDir' = (CacheEntries # {})
         /\ CacheEntries # {} => cache' = cache)]_vars

\* the job with this log has reported neither a failure nor an abort
JobSucceeded(log) == \A j \in 1..Len(log) : log[j].k \notin {"fail", "abort"}
\* the chunks the job with this log has taken from its queue
QueueOf(log) == {log[j].chunk : j \in ChunkEntries(log)}

\* C15: when a job leaves its loop with the queue used up, having reported no
\* failure and no abort, every chunk of its queue has a live cache file; while
\* such a job runs, a cache file appears only for a chunk of its queue and no
\* complete file disappears, so the live set ends as the set before plus the
\* queue
C15_RenderedQueue ==
    [][\A t \in Threads : JobSucceeded(job'[t].log) =>
        /\ (job[t].pc = "loop" /\ job'[t].pc = "scene")
              => \A c \in QueueOf(job[t].log) : cache[c] # "none"
        /\ job[t].pc # "free" => \A c \in DOMAIN cache :
              /\ (cache[c] = "none" /\ cache'[c] # "none")
                    => c \in QueueOf(job[t].log)
              /\ cache[c] = "complete" => cache'[c] = "complete"]_vars

\* C16: in the lastUndo case (stackIx = stackMax-1, no archive stackMax) the
\* live files of the dirty chunks are moved into undo/stackMax and no other
\* live file is touched; the dirty chunks are then restored from the archive
\* at stackIx, which stays as it was. As long as the stack stays one below its
\* top, undo/stackMax changes only by slotRemoveInvalidUndo, so a redo finds
\* in it exactly the files that were live at the undo
C16_LastUndoKeepsBranch ==
    [][/\ (/\ ctl.pc = "inv_files" /\ ctl'.pc # "inv_files"
           /\ ctl.sIx = ctl.sMax - 1 /\ ~undo[DirOf(ctl.sMax)].exists) =>
             LET dirty == SeqToSet(ctl.chunks)
                 live  == [c \in Chunks |-> IF c \in dirty THEN cache[c] ELSE "none"]
             IN /\ undo'[DirOf(ctl.sMax)] =
                      IF live = NoFiles THEN NoDir ELSE Dir(live)
                /\ \A c \in Chunks \ dirty : cache'[c] = cache[c]
                /\ \A c \in dirty : cache'[c] = undo[DirOf(ctl.sIx)].files[c]
                /\ undo'[DirOf(ctl.sIx)] = undo[DirOf(ctl.sIx)]
       /\ (/\ stackIx = stackMax - 1 /\ undo[DirOf(stackMax)].exists
           /\ ctl.pc # "rm_undo") =>
             undo'[DirOf(stackMax)] = undo[DirOf(stackMax)]]_vars
\* the call is at its file operations in the lastUndo case, with a dirty
\* chunk that is live and a dirty chunk that the archive at stackIx holds
C16_Witness ==
    /\ ctl.pc = "inv_files"
    /\ ctl.sIx = ctl.sMax - 1 /\ ~undo[DirOf(ctl.sMax)].exists
    /\ \E c \in SeqToSet(ctl.chunks) : cache[c] # "none"
    /\ \E c \in SeqToSet(ctl.chunks) : undo[DirOf(ctl.sIx)].files[c] # "none"

\* the previewRender signals among the entries of a log
IsSignal(e) == e.k # "launch"
Signals(log) == SelectSeq(log, IsSignal)

\* C17: in a job over n chunks a report of the k-th chunk in ascending order,
\* rendered or found in the cache, carries floor(1000 * k / n) for k < n and
\* 1000 for k = n; a job that leaves its loop having reported neither a
\* failure nor an abort has 1000 in its last report
C17_Progress ==
    [][\A t \in Threads :
        /\ (/\ Len(job'[t].log) = Len(job[t].log) + 1
            /\ Last(job'[t].log).k = "done") =>
              LET taken == QueueOf(job'[t].log)
                  queue == taken \cup SeqToSet(job'[t].chunks)
                  k == Cardinality(taken)
                  n == Cardinality(queue)
                  e == Last(job'[t].log)
              IN /\ Cardinality({c \in queue : c <= e.chunk}) = k
                 /\ e.progress = IF k = n THEN FullProgress
                                 ELSE (FullProgress * k) \div n
        /\ (/\ job[t].pc = "loop" /\ job'[t].pc = "scene"
            /\ JobSucceeded(job[t].log)) =>
              Last(Signals(job[t].log)).progress = FullProgress]_vars

\* the control thread is inside invalidatePreviews, before its return
InInvalidate ==
    /\ ctl.ret = "inv_files"
    /\ ctl.pc \in {"ab_check", "ab_set", "ab_emit", "ab_wait", "inv_files",
                   "inv_cleanup", "inv_exit"}

\* C18: invalidatePreviews stops the timer on entry and remembers whether it
\* was active; until the return the timer stays stopped and no render job is
\* started; on return the timer is active if and only if it was active on
\* entry, and then with its whole interval ahead
C18_TimerPreserved ==
    [][/\ (ctl.pc = "idle" /\ ctl'.ret = "inv_files") =>
             /\ ~IsActive(m_previewTimer')
             /\ ctl'.timer = IsActive(m_previewTimer)
       /\ InInvalidate =>
             /\ ctl'.timer = ctl.timer
             /\ m_previewThread' = m_previewThread
             /\ \A t \in Threads : job[t].pc = "free" => job'[t].pc = "free"
             /\ IF ctl.pc = "inv_exit"
                THEN /\ ctl'.pc = "slot_end"
                     /\ m_previewTimer' = IF ctl.timer THEN Interval ELSE 0
                ELSE ~IsActive(m_previewTimer')]_vars
\* invalidatePreviews has returned with the timer started again
C18_Witness ==
    /\ ctl.pc = "slot_end"
    /\ ctl.timer
    /\ m_previewTimer = Interval

\* C19: an archive directory that exists keeps its files in every step, until
\* it is deleted as a whole: a restore leaves its source as it was, and files
\* are moved only into a directory made in the same call
C19_ArchiveFrozen ==
    [][\A d \in DirNames :
        undo[d].exists => (undo'[d] = undo[d] \/ ~undo'[d].exists)]_vars
\* a restore has copied files out of an archive, which still holds them
C19_Witness ==
    /\ ctl.pc = "inv_exit"
    /\ Len(reloaded) = 1 /\ reloaded[1] # <<>>
    /\ \A c \in SeqToSet(reloaded[1]) :
          /\ cache[c] # "none"
          /\ undo[DirOf(ctl.sIx)].files[c] = cache[c]

\* C20: whenever a call of invalidatePreviews has returned, the undo archive
\* holds at most 5 directories
C20_ArchiveBound ==
    ctl.pc = "slot_end" => Cardinality(ExistingDirs(undo)) <= KeepDirs

\* C21: whenever no render job is running the abort flag is false, so the
\* control thread never reaches the start of a job (line 235) with the flag
\* still raised
C21_FlagClearWhenIdle ==
    /\ RunningJobs = {} => ~m_abortPreview
    /\ ctl.pc = "start_run" => ~m_abortPreview

\* C22: while a render job runs, no step of the control thread (a step that
\* leaves every job where it is) removes a live chunk file, complete or
\* being written
C22_NoForegroundRemoval ==
    [][(RunningJobs # {} /\ job' = job) =>
        \A c \in DOMAIN cache : cache[c] # "none" => cache'[c] # "none"]_vars
====
